---- MODULE Spec2Model ----
(***************************************************************************)
(* Model of OptimizedCricketPredictor (optimizedPredictor.ts): the tiered  *)
(* prediction engine with its prediction cache, the fast / balanced /      *)
(* smart entry points, the fallback chain and the cache management calls.  *)
(*                                                                         *)
(* Probabilities and confidences are fixed-point numbers in units of       *)
(* 1/10000 (0.52 is 5200).  Times are milliseconds, as Date.now().         *)
(* Strings that are concatenated into cache keys are TLA+ strings; texts   *)
(* that are searched (tournament, seriesContext) are tuples of characters. *)
(***************************************************************************)
EXTENDS Integers, Sequences, FiniteSets, TLC

VARIABLES predictionCache, reqs, returned, now, ncalls, cacheResponse, ratings

vars == <<predictionCache, reqs, returned, now, ncalls, cacheResponse, ratings>>

(* ------------------------------ bounds --------------------------------- *)

\* number of request slots that may be in flight at once
MaxReqs == 2
\* total number of prediction calls issued in one behaviour
MaxCalls == 2
\* the clock stops after this many TTL periods
MaxTicks == 1

(* ----------------------------- constants ------------------------------- *)

CACHE_TTL == 5 * 60 * 1000

\* predictionCache.size > 100
CACHE_MAX == 100

Reqs == 1..MaxReqs

MaxNow == MaxTicks * CACHE_TTL

\* the clock advances by just under one TTL, or by exactly one TTL
TickSteps == {CACHE_TTL - 1, CACHE_TTL}

(* ------------------------------- texts --------------------------------- *)

\* an absent optional text field (input.tournament?.)
Undefined == <<"undefined">>

UpperCase == <<"A","B","C","D","E","F","G","H","I","J","K","L","M",
               "N","O","P","Q","R","S","T","U","V","W","X","Y","Z">>
LowerCase == <<"a","b","c","d","e","f","g","h","i","j","k","l","m",
               "n","o","p","q","r","s","t","u","v","w","x","y","z">>

\* String.prototype.toLowerCase on one character
lowerChar(ch) ==
    IF \E i \in 1..Len(UpperCase) : UpperCase[i] = ch
    THEN LowerCase[CHOOSE i \in 1..Len(UpperCase) : UpperCase[i] = ch]
    ELSE ch

\* String.prototype.toLowerCase
toLowerCase(s) == [i \in 1..Len(s) |-> lowerChar(s[i])]

\* String.prototype.includes
includes(s, sub) ==
    \E i \in 1..(Len(s) - Len(sub) + 1) : SubSeq(s, i, i + Len(sub) - 1) = sub

\* input.field?.toLowerCase().includes(marker): undefined (falsy) when absent
optLowerIncludes(text, marker) ==
    IF text = Undefined THEN FALSE ELSE includes(toLowerCase(text), marker)

WORLD == <<"w","o","r","l","d">>
FINAL == <<"f","i","n","a","l">>
SEMI  == <<"s","e","m","i">>

(* ------------------------------- inputs -------------------------------- *)

TxtWorldCupFinal == <<"I","C","C"," ","W","o","r","l","d"," ","C","u","p"," ","F","i","n","a","l">>
TxtFriendlyT20   == <<"F","r","i","e","n","d","l","y"," ","T","2","0">>
TxtSemiCup       == <<"S","e","m","i"," ","C","u","p">>
TxtWorldSeries   == <<"W","o","r","l","d"," ","S","e","r","i","e","s">>
TxtSEMI          == <<"S","E","M","I">>
TxtBilateral     == <<"B","i","l","a","t","e","r","a","l">>

InIndAusFinal ==
    [team1Id |-> "cricket_india", team2Id |-> "cricket_australia", venue |-> "mcg",
     format |-> "t20", tournament |-> TxtWorldCupFinal, seriesContext |-> Undefined]
InIndAusFriendly ==
    [team1Id |-> "cricket_india", team2Id |-> "cricket_australia", venue |-> "mcg",
     format |-> "t20", tournament |-> TxtFriendlyT20, seriesContext |-> TxtBilateral]
InEngPakSemiCup ==
    [team1Id |-> "cricket_england", team2Id |-> "cricket_pakistan", venue |-> "lords",
     format |-> "odi", tournament |-> TxtSemiCup, seriesContext |-> Undefined]
InEngPakWorldSeries ==
    [team1Id |-> "cricket_england", team2Id |-> "cricket_pakistan", venue |-> "lords",
     format |-> "odi", tournament |-> Undefined, seriesContext |-> TxtWorldSeries]
InEngPakSemi ==
    [team1Id |-> "cricket_england", team2Id |-> "cricket_pakistan", venue |-> "lords",
     format |-> "test", tournament |-> Undefined, seriesContext |-> TxtSEMI]
InEngPakFriendly ==
    [team1Id |-> "cricket_england", team2Id |-> "cricket_pakistan", venue |-> "lords",
     format |-> "test", tournament |-> TxtFriendlyT20, seriesContext |-> TxtBilateral]

\* well-formed PredictionInput values (the fields the predictor reads)
AllInputs ==
    { InIndAusFinal, InIndAusFriendly, InEngPakSemiCup, InEngPakWorldSeries,
      InEngPakSemi, InEngPakFriendly }

\* the matches requested while the cache and the clock are exercised
Inputs == { InIndAusFinal, InEngPakFriendly }

NoInput == [team1Id |-> "", team2Id |-> "", venue |-> "", format |-> "",
            tournament |-> Undefined, seriesContext |-> Undefined]

\* the public entry points and their mode / timeConstraint argument
AllOps ==
    { [fn |-> "generateFastPrediction",     arg |-> "none"],
      [fn |-> "generateBalancedPrediction", arg |-> "none"],
      [fn |-> "predict",                    arg |-> "fast"],
      [fn |-> "predict",                    arg |-> "balanced"],
      [fn |-> "predict",                    arg |-> "smart"],
      [fn |-> "generateSmartPrediction",    arg |-> "fast"],
      [fn |-> "generateSmartPrediction",    arg |-> "balanced"],
      [fn |-> "generateSmartPrediction",    arg |-> "accurate"] }

\* the entry points the route handlers call
Ops == { op \in AllOps : op.fn # "generateSmartPrediction" }

NoOp == [fn |-> "none", arg |-> "none"]

(* -------------------------- the collaborators -------------------------- *)

\* the teams of the matches requested (Entity Rating: one rating per team
\* in the requested context)
Teams == {"cricket_india", "cricket_australia", "cricket_england", "cricket_pakistan"}

\* eloRating ... default(1500)
DefaultRating == 1500

\* a team without a rating record in the requested context
NoRating == 0

\* the ratings the teams may have (multiples of 100)
RatingValues == {1400, 1600}

\* the fixed-point unit: the probability 1
ONE == 10000

\* the largest x with x * x <= n (Newton's iteration from above)
RECURSIVE isqrtFrom(_, _)
isqrtFrom(n, x) ==
    LET y == (x + n \div x) \div 2
    IN  IF y >= x THEN x ELSE isqrtFrom(n, y)

isqrt(n) == IF n = 0 THEN 0 ELSE isqrtFrom(n, n)

\* 10^(1/4) in fixed point: the square root of the square root of 10
FourthRootOfTen == isqrt(isqrt(10 * ONE * ONE) * ONE)

\* 10^(d/400) in fixed point, d >= 0 a multiple of 100
RECURSIVE tenToThe(_)
tenToThe(d) == IF d < 100 THEN ONE ELSE (tenToThe(d - 100) * FourthRootOfTen) \div ONE

\* the logistic Elo formula 1 / (1 + 10^((R2 - R1)/400)) in fixed point
expectedScore(R1, R2) ==
    IF R1 >= R2
    THEN (tenToThe(R1 - R2) * ONE) \div (tenToThe(R1 - R2) + ONE)
    ELSE (ONE * ONE) \div (ONE + tenToThe(R2 - R1))

\* the draw mass reserved in the longest format
DRAW_TEST == 200

\* Rating Model, winProbability: team2 takes the remaining mass; in the
\* longest format a fixed drawProb is reserved and the win probabilities
\* are rescaled to sum with it to 1
winProbability(R1, R2, format) ==
    LET p == expectedScore(R1, R2)
    IN  IF format = "test"
        THEN LET p1 == (p * (ONE - DRAW_TEST)) \div ONE
             IN  [team1WinProb |-> p1, team2WinProb |-> ONE - DRAW_TEST - p1,
                  drawProb |-> DRAW_TEST]
        ELSE [team1WinProb |-> p, team2WinProb |-> ONE - p, drawProb |-> 0]

\* values eloService.calculateWinProbability may resolve to
EloOutputs ==
    { [team1WinProb |-> 6000, team2WinProb |-> 4000, drawProb |-> 0],
      [team1WinProb |-> 5400, team2WinProb |-> 4400, drawProb |-> 200] }

NoProbs == [team1WinProb |-> 0, team2WinProb |-> 0, drawProb |-> 0]

\* no call to the Feature Ensemble is under way
NoPriors == [team1 |-> 0, team2 |-> 0, draw |-> 0]

\* values mlService.generateEnhancedPrediction may resolve to
MlOutputs ==
    { [enhancedTeam1WinProb |-> 6500, enhancedTeam2WinProb |-> 3500, enhancedDrawProb |-> 0,
       confidenceLevel |-> 0, modelVersion |-> "ml-v2.0"],
      [enhancedTeam1WinProb |-> 5700, enhancedTeam2WinProb |-> 4100, enhancedDrawProb |-> 200,
       confidenceLevel |-> 8800, modelVersion |-> "ml-v2.0"] }

(* ------------------------------ results -------------------------------- *)

\* getCachedPrediction's null
Null == [engineUsed |-> "null"]

\* x || dflt on numbers: 0 is falsy
orDefault(x, dflt) == IF x = 0 THEN dflt ELSE x

fastAccuracy(format) == IF format = "t20" THEN 78 ELSE IF format = "odi" THEN 75 ELSE 72

balancedAccuracy(format) == IF format = "t20" THEN 82 ELSE IF format = "odi" THEN 79 ELSE 75

\* a fast result that swaps the two win probabilities
fastResultSwapped(input, eloResult, processingTime) ==
    [ team1WinProb     |-> eloResult.team2WinProb,
      team2WinProb     |-> eloResult.team1WinProb,
      drawProb         |-> orDefault(eloResult.drawProb, 200),
      confidence       |-> 7500,
      keyFactors       |-> <<"Team strength (Elo ratings)", "Historical performance">>,
      riskFactors      |-> IF input.format = "test"
                           THEN <<"Weather dependency", "Match duration">> ELSE <<>>,
      modelVersion     |-> "fast-v1.0",
      processingTimeMs |-> processingTime,
      engineUsed       |-> "Elo Rating System",
      accuracy         |-> fastAccuracy(input.format),
      fromCache        |-> "absent" ]

\* the result object built in generateFastPrediction
fastResult(input, eloResult, processingTime) ==
    [ team1WinProb     |-> eloResult.team1WinProb,
      team2WinProb     |-> eloResult.team2WinProb,
      drawProb         |-> orDefault(eloResult.drawProb, 200),
      confidence       |-> 7500,
      keyFactors       |-> <<"Team strength (Elo ratings)", "Historical performance">>,
      riskFactors      |-> IF input.format = "test"
                           THEN <<"Weather dependency", "Match duration">> ELSE <<>>,
      modelVersion     |-> "fast-v1.0",
      processingTimeMs |-> processingTime,
      engineUsed       |-> "Elo Rating System",
      accuracy         |-> fastAccuracy(input.format),
      fromCache        |-> "absent" ]

\* a balanced result whose default confidence is written as a percentage
balancedResultPercent(input, enhancedResult, processingTime) ==
    [ team1WinProb     |-> enhancedResult.enhancedTeam1WinProb,
      team2WinProb     |-> enhancedResult.enhancedTeam2WinProb,
      drawProb         |-> orDefault(enhancedResult.enhancedDrawProb, 200),
      confidence       |-> orDefault(enhancedResult.confidenceLevel, 82 * 10000),
      keyFactors       |-> <<"Team strength", "Venue factors", "Recent form", "Player analysis">>,
      riskFactors      |-> <<>>,
      modelVersion     |-> enhancedResult.modelVersion,
      processingTimeMs |-> processingTime,
      engineUsed       |-> "Elo + ML Ensemble",
      accuracy         |-> balancedAccuracy(input.format),
      fromCache        |-> "absent" ]

\* the result object built in generateBalancedPrediction
balancedResult(input, enhancedResult, processingTime) ==
    [ team1WinProb     |-> enhancedResult.enhancedTeam1WinProb,
      team2WinProb     |-> enhancedResult.enhancedTeam2WinProb,
      drawProb         |-> orDefault(enhancedResult.enhancedDrawProb, 200),
      confidence       |-> orDefault(enhancedResult.confidenceLevel, 8200),
      keyFactors       |-> <<"Team strength", "Venue factors", "Recent form", "Player analysis">>,
      riskFactors      |-> <<>>,
      modelVersion     |-> enhancedResult.modelVersion,
      processingTimeMs |-> processingTime,
      engineUsed       |-> "Elo + ML Ensemble",
      accuracy         |-> balancedAccuracy(input.format),
      fromCache        |-> "absent" ]

\* a fallback that claims the accuracy of the fast engine
generateBasicFallbackAsFast(input, processingTime) ==
    [ fastResult(input, [team1WinProb |-> 5200, team2WinProb |-> 4600, drawProb |-> 200],
                 processingTime)
      EXCEPT !.riskFactors = <<>> ]

\* a fallback that is an even split with no home advantage
generateBasicFallbackEven(input, processingTime) ==
    [ team1WinProb     |-> 5000,
      team2WinProb     |-> 5000,
      drawProb         |-> 0,
      confidence       |-> 5000,
      keyFactors       |-> <<"Basic statistical analysis">>,
      riskFactors      |-> <<"Limited data available", "Fallback prediction">>,
      modelVersion     |-> "fallback-v1.0",
      processingTimeMs |-> processingTime,
      engineUsed       |-> "Basic Fallback",
      accuracy         |-> 65,
      fromCache        |-> "absent" ]

generateBasicFallback(input, processingTime) ==
    [ team1WinProb     |-> 5200,
      team2WinProb     |-> 4600,
      drawProb         |-> 200,
      confidence       |-> 6000,
      keyFactors       |-> <<"Basic statistical analysis">>,
      riskFactors      |-> <<"Limited data available", "Fallback prediction">>,
      modelVersion     |-> "fallback-v1.0",
      processingTimeMs |-> processingTime,
      engineUsed       |-> "Basic Fallback",
      accuracy         |-> 65,
      fromCache        |-> "absent" ]

(* ------------------------------ the cache ------------------------------ *)

\* `fast_${team1Id}_${team2Id}_${format}`
fastKey(input) ==
    "fast_" \o input.team1Id \o "_" \o input.team2Id \o "_" \o input.format

\* a balanced key built like the fast one
balancedKeyUntagged(input) ==
    "fast_" \o input.team1Id \o "_" \o input.team2Id \o "_" \o input.format

\* `balanced_${team1Id}_${team2Id}_${format}_${venue}`
balancedKey(input) ==
    "balanced_" \o input.team1Id \o "_" \o input.team2Id \o "_" \o input.format
        \o "_" \o input.venue

\* the cache is a Map: a sequence of entries in insertion order, keys distinct
cacheHas(cache, key) == \E i \in 1..Len(cache) : cache[i].key = key

cacheIndex(cache, key) == CHOOSE i \in 1..Len(cache) : cache[i].key = key

\* Map.prototype.get (only used where the key is present)
cacheGet(cache, key) == cache[cacheIndex(cache, key)]

\* a set that refreshes the timestamp of a present key and keeps its old result
cacheSetTouch(cache, key, result, timestamp) ==
    IF cacheHas(cache, key)
    THEN [cache EXCEPT ![cacheIndex(cache, key)].timestamp = timestamp]
    ELSE Append(cache, [key |-> key, result |-> result, timestamp |-> timestamp])

\* Map.prototype.set: an existing key keeps its place, a new key goes last
cacheSet(cache, key, result, timestamp) ==
    LET entry == [key |-> key, result |-> result, timestamp |-> timestamp]
    IN  IF cacheHas(cache, key)
        THEN [cache EXCEPT ![cacheIndex(cache, key)] = entry]
        ELSE Append(cache, entry)

\* a lookup that reports the time of the lookup, not of the computation
getCachedPredictionRetimed(cache, key, t) ==
    IF cacheHas(cache, key) /\ t - cacheGet(cache, key).timestamp < CACHE_TTL
    THEN [cacheGet(cache, key).result EXCEPT !.fromCache = "true", !.processingTimeMs = 0]
    ELSE Null

\* a lookup that still serves an entry exactly CACHE_TTL old
getCachedPredictionInclusive(cache, key, t) ==
    IF cacheHas(cache, key) /\ t - cacheGet(cache, key).timestamp <= CACHE_TTL
    THEN [cacheGet(cache, key).result EXCEPT !.fromCache = "true"]
    ELSE Null

\* a lookup that returns the stored object itself
getCachedPredictionUnmarked(cache, key, t) ==
    IF cacheHas(cache, key) /\ t - cacheGet(cache, key).timestamp < CACHE_TTL
    THEN cacheGet(cache, key).result
    ELSE Null

getCachedPrediction(cache, key, t) ==
    IF cacheHas(cache, key) /\ t - cacheGet(cache, key).timestamp < CACHE_TTL
    THEN [cacheGet(cache, key).result EXCEPT !.fromCache = "true"]
    ELSE Null

\* a lookup that deletes the entry it finds expired
cacheAfterLookupPurging(cache, key, t) ==
    IF cacheHas(cache, key) /\ ~(t - cacheGet(cache, key).timestamp < CACHE_TTL)
    THEN SelectSeq(cache, LAMBDA e : e.key # key)
    ELSE cache

\* the Map after getCachedPrediction: get only, an expired entry stays
cacheAfterLookup(cache, key, t) == cache

\* a write that never evicts
cacheResultNoEvict(cache, key, result, t) == cacheSet(cache, key, result, t)

\* a clean-up that deletes the newest key instead of the oldest
cacheResultEvictsNewest(cache, key, result, t) ==
    LET stored == cacheSet(cache, key, result, t)
    IN  IF Len(stored) > CACHE_MAX THEN SubSeq(stored, 1, Len(stored) - 1) ELSE stored

\* a clean-up that is off by one: it deletes the second key, not the first
cacheResultEvictsSecond(cache, key, result, t) ==
    LET stored == cacheSet(cache, key, result, t)
    IN  IF Len(stored) > CACHE_MAX
        THEN <<stored[1]>> \o SubSeq(stored, 3, Len(stored))
        ELSE stored

\* a write that stores the result with the flag fromCache set to false
cacheResultFlagged(cache, key, result, t) ==
    LET stored == cacheSet(cache, key, [result EXCEPT !.fromCache = "false"], t)
    IN  IF Len(stored) > CACHE_MAX THEN Tail(stored) ELSE stored

cacheResult(cache, key, result, t) ==
    LET stored == cacheSet(cache, key, result, t)
    IN  IF Len(stored) > CACHE_MAX THEN Tail(stored) ELSE stored

\* getCacheStats raising instead of returning
Threw == [threw |-> TRUE]

NoStats == [size |-> 0, hitRate |-> 0]

\* statistics that raise when there is nothing to count
getCacheStatsRaisesOnEmpty(cache) ==
    IF Len(cache) = 0 THEN Threw ELSE [size |-> Len(cache), hitRate |-> 8500]

\* statistics that count only the entries a lookup would still serve
getCacheStatsLiveOnly(cache) ==
    [ size    |-> Cardinality({i \in 1..Len(cache) : now - cache[i].timestamp < CACHE_TTL}),
      hitRate |-> 8500 ]

getCacheStats(cache) == [size |-> Len(cache), hitRate |-> 8500]

\* no cache-management endpoint has answered yet
NoResponse == [route |-> "none", status |-> 0, message |-> "", stats |-> NoStats]

(* ----------------------------- requests -------------------------------- *)

\* the cache key of a tier's generate*Prediction function
keyOf(tier, input) == IF tier = "fast" THEN fastKey(input) ELSE balancedKey(input)


\* One request slot: the position of an async call chain and its locals.
\*   pc        "idle", "fastElo" (generateFastPrediction awaiting the Rating
\*             Model), "balElo" / "balMl" (generateBalancedPrediction awaiting
\*             the Rating Model / the Feature Ensemble), "done" (the promise
\*             resolved with result), "threw" (the promise rejected)
\*   op, input the entry point called and its PredictionInput
\*   path      the generate*Prediction functions entered, in order
\*   calls     the collaborator calls made and how each ended
\*   callAt    Date.now() when the entry point was called
\*   doneAt    Date.now() when the promise settled
\*   baseProbs what the Rating Model resolved to in generateBalancedPrediction
\*   priors    the base probabilities handed to the Feature Ensemble
\*   clearedSince  clearCache ran since the entry point was called
IdleReq ==
    [ pc |-> "idle", op |-> NoOp, input |-> NoInput, startTime |-> 0, callAt |-> 0,
      doneAt |-> 0, baseProbs |-> NoProbs, priors |-> NoPriors, path |-> <<>>, calls |-> <<>>,
      result |-> Null, clearedSince |-> FALSE ]

\* generateFastPrediction up to its await: key, cache lookup, startTime
generateFastPrediction(q, cache, t) ==
    LET cached == getCachedPrediction(cache, fastKey(q.input), t)
        q1     == [q EXCEPT !.path = Append(@, "fast")]
    IN  IF cached # Null
        THEN [q1 EXCEPT !.pc = "done", !.result = cached]
        ELSE [q1 EXCEPT !.pc = "fastElo", !.startTime = t]

\* generateFastPrediction after the Rating Model resolved: the result returned
fastEloResolved(q, eloResult, t) ==
    [q EXCEPT !.pc = "done",
              !.calls = Append(@, <<"elo", "ok">>),
              !.result = fastResult(q.input, eloResult, t - q.startTime)]

\* a catch block that lets the Rating Model's error escape
fastEloRethrows(q, t) ==
    [q EXCEPT !.pc = "threw", !.calls = Append(@, <<"elo", "fail">>)]

\* generateFastPrediction's catch block
fastEloRejected(q, t) ==
    [q EXCEPT !.pc = "done",
              !.calls = Append(@, <<"elo", "fail">>),
              !.result = generateBasicFallback(q.input, t - q.startTime)]

\* a catch block that caches the fallback it returns
fastEloRejectedCacheStoresFallback(q, cache, t) ==
    cacheResult(cache, fastKey(q.input), generateBasicFallback(q.input, t - q.startTime), t)

\* the Map after generateFastPrediction's catch block: nothing is written
fastEloRejectedCache(q, cache, t) == cache

\* generateBalancedPrediction up to its first await
generateBalancedPrediction(q, cache, t) ==
    LET cached == getCachedPrediction(cache, balancedKey(q.input), t)
        q1     == [q EXCEPT !.path = Append(@, "balanced")]
    IN  IF cached # Null
        THEN [q1 EXCEPT !.pc = "done", !.result = cached]
        ELSE [q1 EXCEPT !.pc = "balElo", !.startTime = t]

\* priors whose draw is defaulted the way the results' drawProb is
balEloResolvedDefaultedDraw(q, baseProbs) ==
    [q EXCEPT !.pc = "balMl",
              !.calls = Append(@, <<"elo", "ok">>),
              !.baseProbs = baseProbs,
              !.priors = [team1 |-> baseProbs.team1WinProb, team2 |-> baseProbs.team2WinProb,
                          draw |-> orDefault(baseProbs.drawProb, 200)]]

\* generateBalancedPrediction after the Rating Model resolved: call the Ensemble
balEloResolved(q, baseProbs) ==
    [q EXCEPT !.pc = "balMl",
              !.calls = Append(@, <<"elo", "ok">>),
              !.baseProbs = baseProbs,
              !.priors = [team1 |-> baseProbs.team1WinProb, team2 |-> baseProbs.team2WinProb,
                          draw |-> baseProbs.drawProb]]

\* a catch block that answers with the static fallback at once
balancedRejectedToFallback(q, who, cache, t) ==
    [q EXCEPT !.pc = "done",
              !.calls = Append(@, <<who, "fail">>),
              !.result = generateBasicFallback(q.input, t - q.startTime)]

\* a catch block that tries the balanced prediction again
balancedRejectedRetries(q, who, cache, t) ==
    generateBalancedPrediction([q EXCEPT !.calls = Append(@, <<who, "fail">>)], cache, t)

\* generateBalancedPrediction's catch block: fall back to the fast prediction
balancedRejected(q, who, cache, t) ==
    generateFastPrediction([q EXCEPT !.calls = Append(@, <<who, "fail">>)], cache, t)

\* generateBalancedPrediction after the Feature Ensemble resolved
balMlResolved(q, enhancedResult, t) ==
    [q EXCEPT !.pc = "done",
              !.calls = Append(@, <<"ml", "ok">>),
              !.result = balancedResult(q.input, enhancedResult, t - q.startTime)]

\* every marker looked for in both fields
isImportantMatchAnyField(input) ==
    \E marker \in {WORLD, FINAL, SEMI} :
        \/ optLowerIncludes(input.tournament, marker)
        \/ optLowerIncludes(input.seriesContext, marker)

isImportantMatch(input) ==
    \/ optLowerIncludes(input.tournament, WORLD)
    \/ optLowerIncludes(input.tournament, FINAL)
    \/ optLowerIncludes(input.seriesContext, FINAL)
    \/ optLowerIncludes(input.seriesContext, SEMI)

\* routing in which 'accurate' is not a case of its own
generateSmartPredictionNoAccurate(q, timeConstraint, cache, t) ==
    CASE timeConstraint = "fast" -> generateFastPrediction(q, cache, t)
      [] OTHER -> IF isImportantMatch(q.input)
                  THEN generateBalancedPrediction(q, cache, t)
                  ELSE generateFastPrediction(q, cache, t)

generateSmartPrediction(q, timeConstraint, cache, t) ==
    CASE timeConstraint = "fast"     -> generateFastPrediction(q, cache, t)
      [] timeConstraint = "accurate" -> generateBalancedPrediction(q, cache, t)
      [] OTHER -> IF isImportantMatch(q.input)
                  THEN generateBalancedPrediction(q, cache, t)
                  ELSE generateFastPrediction(q, cache, t)

\* a switch without the case 'fast': the mode falls through to smart routing
predictWithoutFastCase(q, mode, cache, t) ==
    CASE mode = "balanced" -> generateBalancedPrediction(q, cache, t)
      [] OTHER             -> generateSmartPrediction(q, "balanced", cache, t)

\* predict: smart calls generateSmartPrediction with the default timeConstraint
predict(q, mode, cache, t) ==
    CASE mode = "fast"     -> generateFastPrediction(q, cache, t)
      [] mode = "balanced" -> generateBalancedPrediction(q, cache, t)
      [] OTHER             -> generateSmartPrediction(q, "balanced", cache, t)

\* a caller (the route handlers) invoking one entry point
invoke(op, q, cache, t) ==
    CASE op.fn = "generateFastPrediction"     -> generateFastPrediction(q, cache, t)
      [] op.fn = "generateBalancedPrediction" -> generateBalancedPrediction(q, cache, t)
      [] op.fn = "generateSmartPrediction"    -> generateSmartPrediction(q, op.arg, cache, t)
      [] OTHER                                -> predict(q, op.arg, cache, t)

(* ------------------------------ actions -------------------------------- *)

\* reqs holds the requests suspended at an await; returned is the request
\* whose promise settled last, as its caller (a route handler) received it.
Init ==
    /\ predictionCache = <<>>
    /\ reqs = [r \in Reqs |-> IdleReq]
    /\ returned = IdleReq
    /\ now = 0
    /\ ncalls = 0
    /\ cacheResponse = NoResponse
    /\ ratings = [team \in Teams |-> DefaultRating]

\* request r has run up to q: it is suspended again, or its promise settled
\* and the caller has the outcome (the locals of the call are gone)
settle(r, q) ==
    IF q.pc \in {"done", "threw"}
    THEN /\ reqs' = [reqs EXCEPT ![r] = IdleReq]
         /\ returned' = [q EXCEPT !.startTime = 0, !.baseProbs = NoProbs, !.priors = NoPriors,
                                  !.doneAt = now]
    ELSE /\ reqs' = [reqs EXCEPT ![r] = q]
         /\ UNCHANGED returned

\* a caller starts a request; it runs to its first await or to a cache hit
\* (slots are interchangeable: the lowest free one is taken)
Call(r, input, op) ==
    /\ reqs[r].pc = "idle"
    /\ \A s \in Reqs : s < r => reqs[s].pc # "idle"
    /\ ncalls < MaxCalls
    /\ LET q == invoke(op, [IdleReq EXCEPT !.op = op, !.input = input, !.callAt = now],
                       predictionCache, now)
       IN  /\ settle(r, q)
           /\ predictionCache' =
                  cacheAfterLookup(predictionCache, keyOf(q.path[1], input), now)
    /\ ncalls' = ncalls + 1
    /\ UNCHANGED <<now, cacheResponse, ratings>>

\* the Rating Model resolves for a request awaiting it
EloResolves(r, eloResult) ==
    /\ reqs[r].pc \in {"fastElo", "balElo"}
    /\ IF reqs[r].pc = "fastElo"
       THEN LET q == fastEloResolved(reqs[r], eloResult, now)
            IN  /\ predictionCache' =
                       cacheResult(predictionCache, fastKey(q.input), q.result, now)
                /\ settle(r, q)
       ELSE /\ settle(r, balEloResolved(reqs[r], eloResult))
            /\ UNCHANGED predictionCache
    /\ UNCHANGED <<now, ncalls, cacheResponse, ratings>>

\* the Rating Model throws for a request awaiting it
EloRejects(r) ==
    /\ reqs[r].pc \in {"fastElo", "balElo"}
    /\ IF reqs[r].pc = "fastElo"
       THEN /\ settle(r, fastEloRejected(reqs[r], now))
            /\ predictionCache' = fastEloRejectedCache(reqs[r], predictionCache, now)
       ELSE /\ settle(r, balancedRejected(reqs[r], "elo", predictionCache, now))
            /\ predictionCache' =
                   cacheAfterLookup(predictionCache, fastKey(reqs[r].input), now)
    /\ UNCHANGED <<now, ncalls, cacheResponse, ratings>>

\* the Feature Ensemble resolves
MlResolves(r, enhancedResult) ==
    /\ reqs[r].pc = "balMl"
    /\ LET q == balMlResolved(reqs[r], enhancedResult, now)
       IN  /\ predictionCache' =
                  cacheResult(predictionCache, balancedKey(q.input), q.result, now)
           /\ settle(r, q)
    /\ UNCHANGED <<now, ncalls, cacheResponse, ratings>>

\* the Feature Ensemble throws
MlRejects(r) ==
    /\ reqs[r].pc = "balMl"
    /\ settle(r, balancedRejected(reqs[r], "ml", predictionCache, now))
    /\ predictionCache' = cacheAfterLookup(predictionCache, fastKey(reqs[r].input), now)
    /\ UNCHANGED <<now, ncalls, cacheResponse, ratings>>

markCleared(q) == IF q.pc = "idle" THEN q ELSE [q EXCEPT !.clearedSince = TRUE]

\* predictionCache.clear(), as every request under way or returned sees it
clearCacheCall ==
    /\ predictionCache' = <<>>
    /\ reqs' = [r \in Reqs |-> markCleared(reqs[r])]
    /\ returned' = markCleared(returned)

clearCache ==
    /\ clearCacheCall
    /\ UNCHANGED <<now, ncalls, cacheResponse, ratings>>

\* Date.now() advances
Tick(d) ==
    /\ now + d <= MaxNow
    /\ now' = now + d
    /\ UNCHANGED <<predictionCache, reqs, returned, ncalls, cacheResponse, ratings>>

Next ==
    \/ \E r \in Reqs, input \in Inputs, op \in Ops : Call(r, input, op)
    \/ \E r \in Reqs, eloResult \in EloOutputs : EloResolves(r, eloResult)
    \/ \E r \in Reqs : EloRejects(r)
    \/ \E r \in Reqs, enhancedResult \in MlOutputs : MlResolves(r, enhancedResult)
    \/ \E r \in Reqs : MlRejects(r)
    \/ clearCache
    \/ \E d \in TickSteps : Tick(d)

Spec == Init /\ [][Next]_vars

(* --------------------- routing of every entry point -------------------- *)

\* every entry point on every input, the clock standing still
NextRoute ==
    \/ \E r \in Reqs, input \in AllInputs, op \in AllOps : Call(r, input, op)
    \/ \E r \in Reqs, eloResult \in EloOutputs : EloResolves(r, eloResult)
    \/ \E r \in Reqs : EloRejects(r)
    \/ \E r \in Reqs, enhancedResult \in MlOutputs : MlResolves(r, enhancedResult)
    \/ \E r \in Reqs : MlRejects(r)

SpecRoute == Init /\ [][NextRoute]_vars

(* ------------------ collaborators that always answer -------------------- *)

\* the collaborator request r is waiting for returns or throws
collaboratorAnswers(r) ==
    \/ \E eloResult \in EloOutputs : EloResolves(r, eloResult)
    \/ EloRejects(r)
    \/ \E enhancedResult \in MlOutputs : MlResolves(r, enhancedResult)
    \/ MlRejects(r)

\* every entry point on every input; no collaborator call stays pending for ever
SpecRouteFair == SpecRoute /\ \A r \in Reqs : WF_vars(collaboratorAnswers(r))

(* ------------------------- a cache that is full ------------------------- *)

\* earlier requests for other matches: fast results cached at time 0
fillerInput(i) ==
    [team1Id |-> "cricket_team" \o ToString(i), team2Id |-> "cricket_rest", venue |-> "oval",
     format |-> "t20", tournament |-> TxtFriendlyT20, seriesContext |-> Undefined]

fillerEntry(i) ==
    [ key       |-> fastKey(fillerInput(i)),
      result    |-> fastResult(fillerInput(i),
                               [team1WinProb |-> 5400, team2WinProb |-> 4400, drawProb |-> 200], 0),
      timestamp |-> 0 ]

\* the predictor after CACHE_MAX - 1 such requests
InitFull ==
    /\ predictionCache = [i \in 1..(CACHE_MAX - 1) |-> fillerEntry(i)]
    /\ reqs = [r \in Reqs |-> IdleReq]
    /\ returned = IdleReq
    /\ now = 0
    /\ ncalls = 0
    /\ cacheResponse = NoResponse
    /\ ratings = [team \in Teams |-> DefaultRating]

SpecFull == InitFull /\ [][Next]_vars

(* ------------------ a cache at its limit, oldest entry live ------------- *)

\* the entry of the first request served: India v Australia, fast tier
firstEntry ==
    [ key       |-> fastKey(InIndAusFinal),
      result    |-> fastResult(InIndAusFinal,
                               [team1WinProb |-> 6000, team2WinProb |-> 4000, drawProb |-> 0], 0),
      timestamp |-> 0 ]

\* the predictor after that request and CACHE_MAX - 1 requests for other matches
InitAged ==
    /\ predictionCache = <<firstEntry>> \o [i \in 1..(CACHE_MAX - 1) |-> fillerEntry(i)]
    /\ reqs = [r \in Reqs |-> IdleReq]
    /\ returned = IdleReq
    /\ now = 0
    /\ ncalls = 0
    /\ cacheResponse = NoResponse
    /\ ratings = [team \in Teams |-> DefaultRating]

SpecAged == InitAged /\ [][Next]_vars

(* --------------------- the cache-management endpoints ------------------- *)

\* POST /api/predict/cache/clear: clearCache() cannot raise, the answer is 200
clearCacheRoute ==
    /\ clearCacheCall
    /\ cacheResponse' = [route |-> "clear", status |-> 200,
                         message |-> "Prediction cache cleared successfully",
                         stats |-> NoStats]
    /\ UNCHANGED <<now, ncalls, ratings>>

\* GET /api/predict/cache/stats: the statistics, or 500 from the catch block
cacheStatsRoute ==
    /\ LET stats == getCacheStats(predictionCache)
       IN  cacheResponse' =
               IF stats = Threw
               THEN [route |-> "stats", status |-> 500,
                     message |-> "Failed to get cache stats", stats |-> NoStats]
               ELSE [route |-> "stats", status |-> 200, message |-> "", stats |-> stats]
    /\ UNCHANGED <<predictionCache, reqs, returned, now, ncalls, ratings>>

\* prediction requests and the cache-management endpoints, the clock standing still
NextCache ==
    \/ \E r \in Reqs, input \in Inputs, op \in Ops : Call(r, input, op)
    \/ \E r \in Reqs, eloResult \in EloOutputs : EloResolves(r, eloResult)
    \/ \E r \in Reqs : EloRejects(r)
    \/ \E r \in Reqs, enhancedResult \in MlOutputs : MlResolves(r, enhancedResult)
    \/ \E r \in Reqs : MlRejects(r)
    \/ clearCacheRoute
    \/ cacheStatsRoute

SpecCache == Init /\ [][NextCache]_vars

\* prediction requests and the statistics endpoint while entries expire
NextStats ==
    \/ \E r \in Reqs, input \in Inputs, op \in Ops : Call(r, input, op)
    \/ \E r \in Reqs, eloResult \in EloOutputs : EloResolves(r, eloResult)
    \/ \E r \in Reqs : EloRejects(r)
    \/ \E r \in Reqs, enhancedResult \in MlOutputs : MlResolves(r, enhancedResult)
    \/ \E r \in Reqs : MlRejects(r)
    \/ cacheStatsRoute
    \/ Tick(CACHE_TTL)

SpecStats == Init /\ [][NextStats]_vars

(* -------------------- team ids that contain the separator --------------- *)

\* request bodies whose ids split differently around the '_' of the keys
InWindiesInd ==
    [team1Id |-> "cricket_west_indies", team2Id |-> "cricket_india", venue |-> "mcg",
     format |-> "t20", tournament |-> TxtWorldCupFinal, seriesContext |-> Undefined]
InWestIndiesInd ==
    [team1Id |-> "cricket_west", team2Id |-> "indies_cricket_india", venue |-> "mcg",
     format |-> "t20", tournament |-> TxtWorldCupFinal, seriesContext |-> Undefined]

UnderscoreInputs == { InWindiesInd, InWestIndiesInd }

\* prediction requests for those bodies, the clock standing still
NextUnderscore ==
    \/ \E r \in Reqs, input \in UnderscoreInputs, op \in Ops : Call(r, input, op)
    \/ \E r \in Reqs, eloResult \in EloOutputs : EloResolves(r, eloResult)
    \/ \E r \in Reqs : EloRejects(r)
    \/ \E r \in Reqs, enhancedResult \in MlOutputs : MlResolves(r, enhancedResult)
    \/ \E r \in Reqs : MlRejects(r)

SpecUnderscore == Init /\ [][NextUnderscore]_vars

(* ---------------------- the Rating Model computed ----------------------- *)

\* both teams of the request have a rating record in the requested context
rated(input) == ratings[input.team1Id] # NoRating /\ ratings[input.team2Id] # NoRating

\* the Rating Model answers from the teams' current ratings
RatingResolves(r) ==
    /\ reqs[r].pc # "idle"
    /\ rated(reqs[r].input)
    /\ EloResolves(r, winProbability(ratings[reqs[r].input.team1Id],
                                     ratings[reqs[r].input.team2Id],
                                     reqs[r].input.format))

\* missing-rating: the Rating Model fails
RatingMissing(r) ==
    /\ reqs[r].pc # "idle"
    /\ ~rated(reqs[r].input)
    /\ EloRejects(r)

\* the teams' ratings as the requests find them
InitRating ==
    /\ predictionCache = <<>>
    /\ reqs = [r \in Reqs |-> IdleReq]
    /\ returned = IdleReq
    /\ now = 0
    /\ ncalls = 0
    /\ cacheResponse = NoResponse
    /\ ratings \in [Teams -> RatingValues \cup {NoRating}]

\* the entry points of the fast tier
FastEntryPoints == { op \in Ops : op.fn = "generateFastPrediction" \/ op.arg = "fast" }

\* fast-mode requests answered by the Rating Model, the clock standing still
NextRating ==
    \/ \E r \in Reqs, input \in Inputs, op \in FastEntryPoints : Call(r, input, op)
    \/ \E r \in Reqs : RatingResolves(r)
    \/ \E r \in Reqs : RatingMissing(r)

SpecRating == InitRating /\ [][NextRating]_vars

(* ------------------------------- claims -------------------------------- *)

Engines == {"Elo Rating System", "Elo + ML Ensemble", "Basic Fallback"}

\* every collaborator call the request made ended in an error, and it made one
allCallsFailed(q) == q.calls # <<>> /\ \A i \in 1..Len(q.calls) : q.calls[i][2] = "fail"

probabilitySum(res) == res.team1WinProb + res.team2WinProb + res.drawProb

\* C1: whatever the entry point, the mode and the outcomes of the Rating
\* Model and the Feature Ensemble, the promise of a request never rejects:
\* no request is ever in the state "threw", and a settled request carries a
\* prediction result of one of the three engines.
C1_NeverRaises ==
    /\ \A r \in Reqs : reqs[r].pc \in {"idle", "fastElo", "balElo", "balMl"}
    /\ returned.pc \in {"idle", "done"}
    /\ returned.pc = "done" => returned.result.engineUsed \in Engines

\* C1 witness: predict in balanced mode returned although the Ensemble failed
\* and the Rating Model failed on the retry in the fast tier.
C1_Witness ==
    /\ returned.pc = "done"
    /\ returned.op = [fn |-> "predict", arg |-> "balanced"]
    /\ returned.calls = << <<"elo", "ok">>, <<"ml", "fail">>, <<"elo", "fail">> >>
    /\ returned.result.engineUsed = "Basic Fallback"

\* C2: every returned result has team1WinProb + team2WinProb + drawProb in
\* [0.99, 1.01] and each of the three in [0, 1].
C2_ProbabilitiesSumToOne ==
    returned.pc = "done" =>
        /\ probabilitySum(returned.result) \in 9900..10100
        /\ returned.result.team1WinProb \in 0..10000
        /\ returned.result.team2WinProb \in 0..10000
        /\ returned.result.drawProb \in 0..10000

\* C3 as stated: a predict request all of whose collaborator calls failed
\* returns the static fallback, whatever the cache holds.
C3_AllFailedGivesFallback ==
    (returned.pc = "done" /\ returned.op.fn = "predict" /\ allCallsFailed(returned)) =>
        /\ returned.result.engineUsed = "Basic Fallback"
        /\ returned.result.accuracy < 70
        /\ returned.result.riskFactors # <<>>

\* C3 amended: a request all of whose collaborator calls failed and which is
\* not answered from the cache returns the static fallback: engineUsed
\* 'Basic Fallback', accuracy below 70, riskFactors not empty.
C3_AllFailedUncachedGivesFallback ==
    (returned.pc = "done" /\ allCallsFailed(returned)
        /\ returned.result.fromCache = "absent") =>
        /\ returned.result.engineUsed = "Basic Fallback"
        /\ returned.result.accuracy < 70
        /\ returned.result.riskFactors # <<>>

\* C3 witness: predict in balanced mode, the Rating Model failing in both tiers.
C3_Witness ==
    /\ returned.pc = "done"
    /\ returned.op = [fn |-> "predict", arg |-> "balanced"]
    /\ returned.calls = << <<"elo", "fail">>, <<"elo", "fail">> >>
    /\ returned.result.fromCache = "absent"
    /\ returned.result.engineUsed = "Basic Fallback"

\* the request went through the balanced tier and its Feature Ensemble call failed
ensembleFailed(q) ==
    /\ q.path # <<>>
    /\ q.path[1] = "balanced"
    /\ Len(q.calls) >= 2
    /\ q.calls[1] = <<"elo", "ok">>
    /\ q.calls[2] = <<"ml", "fail">>

\* C4 as stated: when the Feature Ensemble fails in a balanced request, the
\* result has engineUsed 'Elo Rating System' and the fast accuracy of the format.
C4_EnsembleFailureGivesEloResult ==
    (returned.pc = "done" /\ ensembleFailed(returned)) =>
        /\ returned.result.engineUsed = "Elo Rating System"
        /\ returned.result.accuracy = fastAccuracy(returned.input.format)

\* C4 amended: when the Feature Ensemble fails in a balanced request, the
\* result is what the fast tier gives at that moment and never carries the
\* balanced values: the cached fast result (no further call), a fresh 'Elo
\* Rating System' result with the fast accuracy of the format when the fast
\* tier's own Rating Model call succeeds, and the static fallback (accuracy
\* 65) when that call fails.
C4_EnsembleFailureGivesFastTier ==
    (returned.pc = "done" /\ ensembleFailed(returned)) =>
        LET res  == returned.result
            rest == SubSeq(returned.calls, 3, Len(returned.calls))
        IN  /\ returned.path = <<"balanced", "fast">>
            /\ res.engineUsed # "Elo + ML Ensemble"
            /\ res.accuracy # balancedAccuracy(returned.input.format)
            /\ rest \in { <<>>, << <<"elo", "ok">> >>, << <<"elo", "fail">> >> }
            /\ rest = <<>> =>
                   /\ res.fromCache = "true"
                   /\ res.engineUsed = "Elo Rating System"
                   /\ res.accuracy = fastAccuracy(returned.input.format)
            /\ rest = << <<"elo", "ok">> >> =>
                   /\ res.fromCache = "absent"
                   /\ res.engineUsed = "Elo Rating System"
                   /\ res.modelVersion = "fast-v1.0"
                   /\ res.confidence = 7500
                   /\ res.accuracy = fastAccuracy(returned.input.format)
            /\ rest = << <<"elo", "fail">> >> =>
                   /\ res.fromCache = "absent"
                   /\ res.engineUsed = "Basic Fallback"
                   /\ res.accuracy = 65

\* C4 witness: a balanced request whose Ensemble call failed and whose fast
\* tier computed a fresh result.
C4_Witness ==
    /\ returned.pc = "done"
    /\ ensembleFailed(returned)
    /\ Len(returned.calls) = 3
    /\ returned.calls[3] = <<"elo", "ok">>
    /\ returned.result.engineUsed = "Elo Rating System"
    /\ returned.result.accuracy = 72

(* steps of a request, as seen in a pair of states *)

\* this step is a call of an entry point
newCall == ncalls' = ncalls + 1

\* the request started by this step (it settled at once, or it is suspended)
calledReq ==
    IF reqs' = reqs THEN returned'
    ELSE reqs'[CHOOSE r \in Reqs : reqs[r].pc = "idle" /\ reqs'[r].pc # "idle"]

\* a suspended request's promise settles in this step
resumedSettles(r) == ~newCall /\ reqs[r].pc # "idle" /\ reqs'[r].pc = "idle"

\* the promise of some request settles in this step
settledStep == (newCall /\ reqs' = reqs) \/ \E r \in Reqs : resumedSettles(r)

\* the path of the request that settles in this step, before the step
pathBefore ==
    IF newCall THEN <<>>
    ELSE reqs[CHOOSE r \in Reqs : resumedSettles(r)].path

\* the key the request looked up when it entered its first tier
firstKey(q) == keyOf(q.path[1], q.input)

\* the key of the tier the request was in last
lastKey(q) == keyOf(q.path[Len(q.path)], q.input)

marked(res) == [res EXCEPT !.fromCache = "true"]

\* C5 as stated: a second call with the same input and entry point, made
\* after the first returned and less than CACHE_TTL after the first was
\* made, with no clearCache in between, returns the first result with
\* fromCache set, whatever the first result was.
C5_RepeatedCallIdentical ==
    [][ ( /\ settledStep
          /\ returned.pc = "done"
          /\ ~returned.clearedSince
          /\ returned'.input = returned.input
          /\ returned'.op = returned.op
          /\ returned'.callAt > returned.doneAt
          /\ returned'.callAt - returned.callAt < CACHE_TTL )
        => returned'.result = marked(returned.result) ]_vars

\* C5 amended: when a call returned a freshly computed result that it cached
\* under the key of the tier it was routed to (so neither a cache hit, nor a
\* degraded balanced result, nor the static fallback), a second call with the
\* same input and entry point made less than CACHE_TTL after the first, while
\* that cache entry is still in place (not cleared, evicted or overwritten),
\* returns at once the same result in every field except fromCache = true.
C5_RepeatServedFromCache ==
    [][ ( /\ newCall
          /\ returned.pc = "done"
          /\ calledReq.input = returned.input
          /\ calledReq.op = returned.op
          /\ returned.result.fromCache = "absent"
          /\ now - returned.callAt < CACHE_TTL
          /\ cacheHas(predictionCache, firstKey(returned))
          /\ cacheGet(predictionCache, firstKey(returned)).result = returned.result
          /\ cacheGet(predictionCache, firstKey(returned)).timestamp = returned.doneAt )
        => ( /\ reqs' = reqs
             /\ returned'.callAt = now
             /\ returned'.calls = <<>>
             /\ returned'.result = marked(returned.result) ) ]_vars

\* C5 witness: a result computed over some time and cached at time 0 has been
\* served again to a request made CACHE_TTL - 1 later.
C5_Witness ==
    /\ returned.pc = "done"
    /\ returned.callAt = CACHE_TTL - 1
    /\ returned.result.fromCache = "true"
    /\ returned.result.engineUsed = "Elo + ML Ensemble"
    /\ returned.path = <<"balanced">>
    /\ cacheHas(predictionCache, balancedKey(returned.input))
    /\ cacheGet(predictionCache, balancedKey(returned.input)).timestamp = 0
    /\ marked(cacheGet(predictionCache, balancedKey(returned.input)).result) = returned.result

\* a suspended balanced request falls back to the fast tier in this step
fallbackLookup(r) ==
    /\ reqs[r].pc \in {"balElo", "balMl"}
    /\ \/ reqs'[r].pc = "fastElo"
       \/ reqs'[r].pc = "idle" /\ Len(returned'.path) = 2

\* C6: an entry written at time t is served by a lookup at time t' exactly
\* when t' - t < 5 minutes; a lookup (a hit too) leaves the entry and its
\* timestamp as they are; a lookup that finds no entry or an expired one
\* makes the request call the Rating Model, and a successful computation
\* writes its result under the key with the time of the write.
C6_TtlExpiry ==
    [][ /\ newCall =>
            LET q == calledReq
                k == firstKey(q)
            IN  /\ predictionCache' = predictionCache
                /\ IF /\ cacheHas(predictionCache, k)
                      /\ now - cacheGet(predictionCache, k).timestamp < 5 * 60 * 1000
                   THEN /\ reqs' = reqs
                        /\ q.calls = <<>>
                        /\ q.result = marked(cacheGet(predictionCache, k).result)
                   ELSE /\ q.pc = (IF q.path[1] = "fast" THEN "fastElo" ELSE "balElo")
                        /\ q.startTime = now
        /\ \A r \in Reqs : fallbackLookup(r) =>
               LET k == fastKey(reqs[r].input)
               IN  /\ predictionCache' = predictionCache
                   /\ IF /\ cacheHas(predictionCache, k)
                         /\ now - cacheGet(predictionCache, k).timestamp < 5 * 60 * 1000
                      THEN /\ reqs'[r].pc = "idle"
                           /\ returned'.result = marked(cacheGet(predictionCache, k).result)
                      ELSE /\ reqs'[r].pc = "fastElo"
                           /\ reqs'[r].startTime = now
        /\ \A r \in Reqs :
               ( /\ resumedSettles(r)
                 /\ reqs[r].pc \in {"fastElo", "balMl"}
                 /\ returned'.calls[Len(returned'.calls)][2] = "ok" ) =>
               LET k == lastKey(returned')
               IN  /\ cacheHas(predictionCache', k)
                   /\ cacheGet(predictionCache', k).result = returned'.result
                   /\ cacheGet(predictionCache', k).timestamp = now
      ]_vars

\* C6 witness: a request made when the entry under its key was exactly
\* CACHE_TTL old is waiting for the Rating Model.
C6_Witness ==
    \E r \in Reqs :
        /\ reqs[r].pc = "fastElo"
        /\ reqs[r].path = <<"fast">>
        /\ reqs[r].callAt = CACHE_TTL
        /\ cacheHas(predictionCache, fastKey(reqs[r].input))
        /\ cacheGet(predictionCache, fastKey(reqs[r].input)).timestamp = 0

\* C7: the number of cache entries getCacheStats reports never exceeds 100.
C7_CacheSizeBounded == getCacheStats(predictionCache).size <= 100

\* C7 witness: the cache holds 100 entries after its first entry was evicted.
C7_Witness ==
    /\ Len(predictionCache) = 100
    /\ predictionCache[1].key = fillerEntry(2).key

\* every request known to the state: the suspended ones and the one returned last
activeRequests == {q \in {reqs[r] : r \in Reqs} \cup {returned} : q.pc # "idle"}

hasMarker(text, marker) == text # Undefined /\ includes(toLowerCase(text), marker)

\* C8 as stated: in smart mode a request goes to the balanced tier exactly
\* when tournament or seriesContext contains 'world', 'final' or 'semi'.
C8_SmartRoutesOnAnyMarker ==
    \A q \in activeRequests :
        q.op = [fn |-> "predict", arg |-> "smart"] =>
            ( q.path[1] = "balanced" <=>
                  \E marker \in {WORLD, FINAL, SEMI} :
                      \/ hasMarker(q.input.tournament, marker)
                      \/ hasMarker(q.input.seriesContext, marker) )

\* C8 amended: in smart mode a request goes to the balanced tier exactly when
\* its tournament contains 'world' or 'final' or its seriesContext contains
\* 'final' or 'semi' (case-insensitively), and to the fast tier otherwise;
\* tournament 'ICC World Cup Final' goes to balanced, tournament 'Friendly
\* T20' with no marker in seriesContext goes to fast.
C8_SmartRoutesOnCheckedMarkers ==
    \A q \in activeRequests :
        q.op = [fn |-> "predict", arg |-> "smart"] =>
            /\ q.path[1] \in {"fast", "balanced"}
            /\ q.path[1] = "balanced" <=>
                   \/ hasMarker(q.input.tournament, WORLD)
                   \/ hasMarker(q.input.tournament, FINAL)
                   \/ hasMarker(q.input.seriesContext, FINAL)
                   \/ hasMarker(q.input.seriesContext, SEMI)
            /\ q.input.tournament = TxtWorldCupFinal => q.path[1] = "balanced"
            /\ (q.input.tournament = TxtFriendlyT20 /\ q.input.seriesContext = TxtBilateral)
                   => q.path[1] = "fast"

\* C8 witness: smart requests for 'ICC World Cup Final' (balanced) and for
\* tournament 'Semi Cup' (fast) are both under way.
C8_Witness ==
    /\ \E q \in activeRequests :
           /\ q.op = [fn |-> "predict", arg |-> "smart"]
           /\ q.input = InIndAusFinal
           /\ q.path[1] = "balanced"
    /\ \E q \in activeRequests :
           /\ q.op = [fn |-> "predict", arg |-> "smart"]
           /\ q.input = InEngPakSemiCup
           /\ q.path[1] = "fast"

\* C9 as stated: timeConstraint 'fast' runs the fast tier, 'balanced' and
\* 'accurate' run the balanced tier, whatever the input says.
C9_TimeConstraintForcesTier ==
    \A q \in activeRequests :
        q.op.fn = "generateSmartPrediction" =>
            q.path[1] = (IF q.op.arg = "fast" THEN "fast" ELSE "balanced")

\* C9 amended: timeConstraint 'fast' always runs the fast tier and 'accurate'
\* always runs the balanced tier, whatever tournament and seriesContext say;
\* timeConstraint 'balanced' (the default) forces nothing: it applies the
\* importance heuristic.
C9_FastAndAccurateForceTier ==
    \A q \in activeRequests :
        q.op.fn = "generateSmartPrediction" =>
            /\ q.op.arg = "fast" => q.path[1] = "fast"
            /\ q.op.arg = "accurate" => q.path[1] = "balanced"
            /\ q.op.arg = "balanced" =>
                   ( q.path[1] = "balanced" <=>
                         \/ hasMarker(q.input.tournament, WORLD)
                         \/ hasMarker(q.input.tournament, FINAL)
                         \/ hasMarker(q.input.seriesContext, FINAL)
                         \/ hasMarker(q.input.seriesContext, SEMI) )

\* C9 witness: 'accurate' ran the balanced tier on a friendly, 'fast' ran the
\* fast tier on a World Cup final.
C9_Witness ==
    /\ \E q \in activeRequests :
           /\ q.op = [fn |-> "generateSmartPrediction", arg |-> "accurate"]
           /\ q.input = InEngPakFriendly
           /\ q.path[1] = "balanced"
    /\ \E q \in activeRequests :
           /\ q.op = [fn |-> "generateSmartPrediction", arg |-> "fast"]
           /\ q.input = InIndAusFinal
           /\ q.path[1] = "fast"

\* C10: a returned result has fromCache = true exactly when the request was
\* answered by a cache lookup (it entered a tier and returned without waiting
\* for a collaborator); then it equals the stored result in every other field
\* and the cache is untouched; a computed result (fast, balanced or fallback)
\* has no fromCache, and what a computation stores is the result it returns.
C10_FromCacheIffServed ==
    [][ settledStep =>
            LET q      == returned'
                served == Len(q.path) > Len(pathBefore)
                k      == lastKey(q)
            IN  /\ q.pc = "done"
                /\ q.result.fromCache = "true" <=> served
                /\ q.result.fromCache \in {"true", "absent"}
                /\ served =>
                       /\ predictionCache' = predictionCache
                       /\ cacheHas(predictionCache, k)
                       /\ cacheGet(predictionCache, k).result.fromCache = "absent"
                       /\ q.result = marked(cacheGet(predictionCache, k).result)
                /\ (~served /\ q.result.engineUsed # "Basic Fallback") =>
                       /\ cacheHas(predictionCache', k)
                       /\ cacheGet(predictionCache', k).result = q.result
      ]_vars

\* C10 witness: a balanced request whose Ensemble call failed was answered
\* from the fast tier's cache entry.
C10_Witness ==
    /\ returned.pc = "done"
    /\ returned.path = <<"balanced", "fast">>
    /\ returned.calls = << <<"elo", "ok">>, <<"ml", "fail">> >>
    /\ returned.result.fromCache = "true"
    /\ cacheHas(predictionCache, fastKey(returned.input))
    /\ marked(cacheGet(predictionCache, fastKey(returned.input)).result) = returned.result

\* request bodies chosen to make keys look alike: ids that are tier names,
\* ids and venues with '_' in them, empty fields
KeyProbeInputs ==
    AllInputs \cup
    { [team1Id |-> "balanced", team2Id |-> "fast", venue |-> "fast", format |-> "t20",
       tournament |-> Undefined, seriesContext |-> Undefined],
      [team1Id |-> "cricket_india", team2Id |-> "cricket_australia_t20", venue |-> "",
       format |-> "mcg", tournament |-> Undefined, seriesContext |-> Undefined],
      [team1Id |-> "", team2Id |-> "", venue |-> "", format |-> "",
       tournament |-> Undefined, seriesContext |-> Undefined],
      [team1Id |-> "fast_cricket_india", team2Id |-> "cricket_australia", venue |-> "t20_mcg",
       format |-> "t20", tournament |-> Undefined, seriesContext |-> Undefined] }

\* C11: the fast key of an input never equals the balanced key of an input
\* (whatever the ids, format and venue are), so every entry under a fast key
\* holds a result of the fast tier and every entry under a balanced key a
\* result of the balanced tier, and a request answered from the cache in a
\* tier gets a result that tier stored.
C11_TierKeysDisjoint ==
    /\ {fastKey(a) : a \in KeyProbeInputs} \cap {balancedKey(b) : b \in KeyProbeInputs} = {}
    /\ \A i \in 1..Len(predictionCache) :
           LET e == predictionCache[i]
           IN  /\ (\E a \in Inputs : e.key = fastKey(a))
                      => e.result.engineUsed = "Elo Rating System"
               /\ (\E b \in Inputs : e.key = balancedKey(b))
                      => e.result.engineUsed = "Elo + ML Ensemble"
    /\ (returned.pc = "done" /\ returned.result.fromCache = "true") =>
           returned.result.engineUsed =
               (IF returned.path[Len(returned.path)] = "fast"
                THEN "Elo Rating System" ELSE "Elo + ML Ensemble")

\* C11 witness: a fast request made while the balanced entry of the same match
\* was cached missed it and computed; the cache holds both entries.
C11_Witness ==
    /\ returned.pc = "done"
    /\ returned.path = <<"fast">>
    /\ returned.calls = << <<"elo", "ok">> >>
    /\ cacheHas(predictionCache, fastKey(returned.input))
    /\ cacheHas(predictionCache, balancedKey(returned.input))
    /\ cacheGet(predictionCache, balancedKey(returned.input)).timestamp <= returned.callAt
    /\ cacheGet(predictionCache, balancedKey(returned.input)).result.engineUsed
           = "Elo + ML Ensemble"
    /\ cacheGet(predictionCache, fastKey(returned.input)).result.engineUsed
           = "Elo Rating System"

\* the request is waiting for the Rating Model
awaitsRatingModel(q) == q.pc \in {"fastElo", "balElo"}

\* the cache key on whose behalf a suspended request is computing
computingKey(q) == IF q.pc = "fastElo" THEN fastKey(q.input) ELSE balancedKey(q.input)

\* C12: at most one call into the Rating Model on behalf of a cache key is in
\* flight at any time: no two requests wait for the Rating Model for the same
\* key.
C12_SingleFlight ==
    \A r1, r2 \in Reqs :
        ( /\ r1 # r2
          /\ awaitsRatingModel(reqs[r1])
          /\ awaitsRatingModel(reqs[r2]) )
        => computingKey(reqs[r1]) # computingKey(reqs[r2])

\* the entry that request q, settling now with a computed result, writes
writtenEntry(q) == [key |-> lastKey(q), result |-> q.result, timestamp |-> now]

\* cache2 is cache after one write of entry e: in place under a key that is
\* present, else appended, the first entry dropped or not
oneWrite(cache, cache2, e) ==
    IF \E i \in 1..Len(cache) : cache[i].key = e.key
    THEN \E i \in 1..Len(cache) : cache[i].key = e.key /\ cache2 = [cache EXCEPT ![i] = e]
    ELSE cache2 \in {Append(cache, e), Tail(Append(cache, e))}

\* C13: under every interleaving of requests (suspended only at their awaits)
\* and clearCache calls: the cache changes only by a clear or by one whole
\* entry (key, result, time of the write) written by the request that returns
\* that very result; keys stay distinct, every entry holds a complete computed
\* result, there are never more than 100 entries; and a request that resumes
\* returns either the result built from its own input, its own start time and
\* the value its own collaborator call resolved to, or the static fallback
\* for its own input, or one stored entry as it is (marked fromCache).
C13_CacheSafeUnderInterleaving ==
    [][ /\ predictionCache' # predictionCache =>
               \/ predictionCache' = <<>>
               \/ /\ settledStep
                  /\ returned'.result.fromCache = "absent"
                  /\ oneWrite(predictionCache, predictionCache', writtenEntry(returned'))
        /\ Len(predictionCache') <= 100
        /\ Cardinality({predictionCache'[i].key : i \in 1..Len(predictionCache')})
               = Len(predictionCache')
        /\ \A i \in 1..Len(predictionCache') :
               /\ predictionCache'[i].result.fromCache = "absent"
               /\ predictionCache'[i].result.engineUsed
                      \in {"Elo Rating System", "Elo + ML Ensemble"}
               /\ predictionCache'[i].timestamp <= now
        /\ \A r \in Reqs : resumedSettles(r) =>
               LET q   == reqs[r]
                   res == returned'.result
                   pt  == now - q.startTime
               IN  \/ /\ q.pc = "fastElo"
                      /\ \E eloResult \in EloOutputs : res = fastResult(q.input, eloResult, pt)
                   \/ /\ q.pc = "fastElo"
                      /\ res = generateBasicFallback(q.input, pt)
                   \/ /\ q.pc = "balMl"
                      /\ \E enhancedResult \in MlOutputs :
                             res = balancedResult(q.input, enhancedResult, pt)
                   \/ /\ q.pc \in {"balElo", "balMl"}
                      /\ \E i \in 1..Len(predictionCache) :
                             /\ predictionCache[i].key = fastKey(q.input)
                             /\ res = marked(predictionCache[i].result)
      ]_vars

\* C13 witness: a balanced request is still waiting for the Feature Ensemble
\* after clearCache ran, and a later fast request for the same match has
\* computed and written the only entry of the cache.
C13_Witness ==
    /\ reqs[1].pc = "balMl"
    /\ reqs[1].clearedSince
    /\ returned.pc = "done"
    /\ ~returned.clearedSince
    /\ returned.input = reqs[1].input
    /\ returned.calls = << <<"elo", "ok">> >>
    /\ predictionCache =
           << [key |-> fastKey(returned.input), result |-> returned.result,
               timestamp |-> returned.doneAt] >>

\* the entry points that ask for the fast tier outright
FastOps ==
    { [fn |-> "generateFastPrediction", arg |-> "none"],
      [fn |-> "predict", arg |-> "fast"],
      [fn |-> "generateSmartPrediction", arg |-> "fast"] }

\* C14: a request for the fast tier (generateFastPrediction, predict in mode
\* 'fast', timeConstraint 'fast', or smart routing to fast) never calls the
\* Feature Ensemble and never enters the balanced tier: it looks up the cache
\* and calls the Rating Model at most once.
C14_FastNeverCallsEnsemble ==
    \A q \in activeRequests :
        /\ q.op \in FastOps => q.path[1] = "fast"
        /\ q.path[1] = "fast" =>
               /\ q.path = <<"fast">>
               /\ q.pc \in {"fastElo", "done"}
               /\ q.priors = NoPriors
               /\ q.calls \in { <<>>, << <<"elo", "ok">> >>, << <<"elo", "fail">> >> }
               /\ q.pc = "fastElo" => q.calls = <<>>

\* C14 witness: a smart request routed to the fast tier returned after one
\* successful call of the Rating Model.
C14_Witness ==
    /\ returned.pc = "done"
    /\ returned.op = [fn |-> "predict", arg |-> "smart"]
    /\ returned.input = InEngPakSemiCup
    /\ returned.path = <<"fast">>
    /\ returned.calls = << <<"elo", "ok">> >>
    /\ returned.result.engineUsed = "Elo Rating System"

\* the key of the tier whose engine produced result res for input
producerKey(input, res) ==
    IF res.engineUsed = "Elo Rating System" THEN fastKey(input) ELSE balancedKey(input)

\* C15: when a call returns a freshly computed result of the fast or the
\* balanced engine (no fromCache), the cache holds, in the state in which the
\* call returns, an entry under the key of the tier that produced the result
\* and the stored result is the returned one.
C15_WrittenBeforeReturned ==
    [][ ( /\ settledStep
          /\ returned'.result.fromCache = "absent"
          /\ returned'.result.engineUsed \in {"Elo Rating System", "Elo + ML Ensemble"} )
        => \E i \in 1..Len(predictionCache') :
               /\ predictionCache'[i].key = producerKey(returned'.input, returned'.result)
               /\ predictionCache'[i].result = returned'.result
               /\ predictionCache'[i].timestamp = returned'.doneAt
      ]_vars

\* C15 witness: a balanced result was returned by the write that made the
\* full cache drop its first entry; it is the last entry of the cache.
C15_Witness ==
    /\ returned.pc = "done"
    /\ returned.result.fromCache = "absent"
    /\ returned.result.engineUsed = "Elo + ML Ensemble"
    /\ Len(predictionCache) = CACHE_MAX
    /\ predictionCache[1].key = fillerEntry(2).key
    /\ predictionCache[CACHE_MAX] =
           [key |-> balancedKey(returned.input), result |-> returned.result,
            timestamp |-> returned.doneAt]

\* the result is the fixed static estimate
isStaticFallback(res) ==
    /\ res.team1WinProb = 5200
    /\ res.team2WinProb = 4600
    /\ res.drawProb = 200
    /\ res.confidence = 6000
    /\ res.riskFactors # <<>>
    /\ res.engineUsed = "Basic Fallback"
    /\ res.accuracy = 65

\* C16: the static fallback gives, for every input (every format, also an
\* unknown one) and every processing time, 0.52 / 0.46 / 0.02 with confidence
\* 0.60, riskFactors that are not empty and accuracy 65; 65 is below the fast
\* accuracy, which is below the balanced accuracy, for every format; and it
\* never fails: whatever the cache holds and the collaborators did, a request
\* whose Rating Model call failed in the fast tier (a request not answered
\* from the cache) has returned exactly this estimate.
C16_StaticFallback ==
    /\ \A input \in KeyProbeInputs, processingTime \in {0, now} :
           /\ isStaticFallback(generateBasicFallback(input, processingTime))
           /\ generateBasicFallback(input, processingTime).processingTimeMs = processingTime
           /\ generateBasicFallback(input, processingTime).accuracy < fastAccuracy(input.format)
           /\ fastAccuracy(input.format) < balancedAccuracy(input.format)
    /\ \A q \in activeRequests :
           (q.calls # <<>> /\ q.calls[Len(q.calls)] = <<"elo", "fail">>
               /\ q.path[Len(q.path)] = "fast" /\ q.pc # "fastElo"
               /\ q.result.fromCache # "true") =>
               /\ q.pc = "done"
               /\ isStaticFallback(q.result)
               /\ q.result.fromCache = "absent"
               /\ q.result.accuracy < fastAccuracy(q.input.format)
               /\ q.result.accuracy < balancedAccuracy(q.input.format)

\* C16 witness: timeConstraint 'accurate' on a one-day match returned the
\* static fallback after the Rating Model failed in both tiers.
C16_Witness ==
    /\ returned.pc = "done"
    /\ returned.op = [fn |-> "generateSmartPrediction", arg |-> "accurate"]
    /\ returned.input.format = "odi"
    /\ returned.calls = << <<"elo", "fail">>, <<"elo", "fail">> >>
    /\ isStaticFallback(returned.result)

\* the keys of a cache in iteration order
keysOf(cache) == [i \in 1..Len(cache) |-> cache[i].key]

\* this step returns a freshly computed result of the fast or balanced engine
freshStep ==
    /\ settledStep
    /\ returned'.result.fromCache = "absent"
    /\ returned'.result.engineUsed \in {"Elo Rating System", "Elo + ML Ensemble"}

\* C17: a write under a new key into a cache of 100 entries evicts exactly
\* one entry, the first in insertion order, and the entry written becomes the
\* last; a write under a new key into a smaller cache evicts nothing; a write
\* under a key that is present keeps every key in its place; a request
\* answered from the cache leaves the cache, and so the order, as it is.
C17_FifoEviction ==
    [][ /\ freshStep =>
               LET e == writtenEntry(returned')
               IN  IF \E i \in 1..Len(predictionCache) : predictionCache[i].key = e.key
                   THEN \E i \in 1..Len(predictionCache) :
                            /\ predictionCache[i].key = e.key
                            /\ predictionCache' = [predictionCache EXCEPT ![i] = e]
                   ELSE IF Len(predictionCache) = 100
                        THEN /\ predictionCache' = Append(Tail(predictionCache), e)
                             /\ Len(predictionCache') = 100
                             /\ predictionCache'[100] = e
                        ELSE predictionCache' = Append(predictionCache, e)
        /\ (settledStep /\ returned'.result.fromCache = "true") =>
               predictionCache' = predictionCache
      ]_vars

\* C17 witness: after 99 older entries, two writes under new keys; the second
\* evicted the oldest entry, the first written is now last but one.
C17_Witness ==
    /\ Len(predictionCache) = 100
    /\ keysOf(predictionCache)[1] = fillerEntry(2).key
    /\ keysOf(predictionCache)[98] = fillerEntry(99).key
    /\ keysOf(predictionCache)[99] = fastKey(InEngPakFriendly)
    /\ keysOf(predictionCache)[100] = balancedKey(InIndAusFinal)

\* confidenceLevel values in [0, 1] the Feature Ensemble may return
ConfidenceLevels == {0, 1, 5000, 7500, 8200, 9999, 10000}

\* C18: the confidence of every returned result is in [0, 1]: 0.75 from the
\* fast tier, 0.60 from the static fallback, the stored value for a result
\* served from the cache (every stored confidence is in [0, 1]), and, for the
\* balanced tier, the confidenceLevel of the Feature Ensemble for every level
\* in [0, 1], where level 0 is replaced by 0.82.
C18_ConfidenceInUnitInterval ==
    /\ returned.pc = "done" =>
           /\ returned.result.confidence \in 0..10000
           /\ returned.result.engineUsed = "Elo Rating System" => returned.result.confidence = 7500
           /\ returned.result.engineUsed = "Basic Fallback" => returned.result.confidence = 6000
    /\ \A i \in 1..Len(predictionCache) : predictionCache[i].result.confidence \in 0..10000
    /\ \A level \in ConfidenceLevels, enhancedResult \in MlOutputs :
           LET res == balancedResult(InIndAusFinal,
                                     [enhancedResult EXCEPT !.confidenceLevel = level], 0)
           IN  /\ res.confidence \in 0..10000
               /\ res.confidence = (IF level = 0 THEN 8200 ELSE level)

\* C18 witness: a balanced result computed from confidenceLevel 0 was returned
\* with confidence 0.82.
C18_Witness ==
    /\ returned.pc = "done"
    /\ returned.result.engineUsed = "Elo + ML Ensemble"
    /\ returned.result.fromCache = "absent"
    /\ returned.result.team1WinProb = 6500
    /\ returned.result.confidence = 8200

\* the request called the Feature Ensemble at some point
calledEnsemble(q) == \E i \in 1..Len(q.calls) : q.calls[i][1] = "ml"

\* C19: in a request that entered the balanced tier: while it waits for the
\* Rating Model it has called nothing else; it waits for the Feature Ensemble
\* only after its own Rating Model call succeeded, and the priors handed over
\* are the three probabilities that call resolved to (the draw as it came, 0
\* included); a Feature Ensemble call is always the second call, right after
\* a successful Rating Model call; when the Rating Model failed the Ensemble
\* is never called; a request answered by the balanced lookup called nothing.
C19_EnsembleAfterRatingModel ==
    \A q \in activeRequests :
        q.path[1] = "balanced" =>
            /\ q.pc = "balElo" => (q.calls = <<>> /\ q.priors = NoPriors)
            /\ q.pc = "balMl" =>
                   /\ q.calls = << <<"elo", "ok">> >>
                   /\ q.baseProbs \in EloOutputs
                   /\ q.priors = [team1 |-> q.baseProbs.team1WinProb,
                                  team2 |-> q.baseProbs.team2WinProb,
                                  draw  |-> q.baseProbs.drawProb]
            /\ \A i \in 1..Len(q.calls) :
                   q.calls[i][1] = "ml" => (i = 2 /\ q.calls[1] = <<"elo", "ok">>)
            /\ (q.calls # <<>> /\ q.calls[1] = <<"elo", "fail">>) => ~calledEnsemble(q)
            /\ (q.pc = "done" /\ q.path = <<"balanced">> /\ q.result.fromCache = "true")
                   => q.calls = <<>>

\* C19 witness: a balanced request waits for the Feature Ensemble, which got
\* the priors 0.6 / 0.4 / 0 the Rating Model resolved to.
C19_Witness ==
    \E r \in Reqs :
        /\ reqs[r].pc = "balMl"
        /\ reqs[r].path = <<"balanced">>
        /\ reqs[r].baseProbs = [team1WinProb |-> 6000, team2WinProb |-> 4000, drawProb |-> 0]
        /\ reqs[r].priors = [team1 |-> 6000, team2 |-> 4000, draw |-> 0]

\* this step is an answer of POST /api/predict/cache/clear: no request is
\* called or resumed, and the last answer is that of the clear endpoint
clearStep ==
    /\ cacheResponse'.route = "clear"
    /\ ncalls' = ncalls
    /\ \A r \in Reqs : reqs'[r].pc = reqs[r].pc

\* this step is an answer of GET /api/predict/cache/stats
statsStep == cacheResponse'.route = "stats" /\ cacheResponse' # cacheResponse

\* C20: the cache-management endpoints never answer with an error, whatever
\* the cache holds and also when it is empty; clearCache leaves an empty cache
\* (on an empty cache too, so clearing twice is clearing once), and in the
\* state it leaves getCacheStats reports size 0; getCacheStats on an empty
\* cache reports size 0 and changes nothing; and a request made in the state
\* clearCache leaves (the cache empty) misses the cache for every key: it
\* goes on to call the Rating Model.
C20_CacheManagementOnEmptyState ==
    [][ /\ cacheResponse'.status \in {0, 200}
        /\ clearStep =>
               /\ cacheResponse'.status = 200
               /\ predictionCache' = <<>>
               /\ getCacheStats(predictionCache') = [size |-> 0, hitRate |-> 8500]
               /\ predictionCache = <<>> => UNCHANGED <<predictionCache, now, ncalls>>
        /\ statsStep =>
               /\ cacheResponse'.status = 200
               /\ cacheResponse'.stats.size = Len(predictionCache)
               /\ predictionCache = <<>> => cacheResponse'.stats.size = 0
               /\ UNCHANGED <<predictionCache, reqs, returned>>
        /\ (newCall /\ predictionCache = <<>>) =>
               /\ calledReq.pc \in {"fastElo", "balElo"}
               /\ calledReq.calls = <<>>
               /\ reqs' # reqs
      ]_vars

\* C20 witness: the cache was cleared after a result had been cached, the
\* statistics then reported size 0, and the same request made afterwards is
\* waiting for the Rating Model.
C20_Witness ==
    /\ predictionCache = <<>>
    /\ cacheResponse = [route |-> "stats", status |-> 200, message |-> "",
                        stats |-> [size |-> 0, hitRate |-> 8500]]
    /\ returned.pc = "done"
    /\ returned.clearedSince
    /\ returned.calls = << <<"elo", "ok">> >>
    /\ \E r \in Reqs :
           /\ reqs[r].pc = "fastElo"
           /\ ~reqs[r].clearedSince
           /\ reqs[r].input = returned.input
           /\ reqs[r].op = returned.op

(* ------------------------------- C21 ----------------------------------- *)

\* the request returned was computed by the fast tier from the Rating Model's
\* answer (a cache miss, the Rating Model resolved)
fastComputed(q) ==
    /\ q.pc = "done"
    /\ q.path = <<"fast">>
    /\ q.calls = << <<"elo", "ok">> >>
    /\ q.result.fromCache = "absent"

\* a win probability with the draw mass the Rating Model reserved for the
\* format taken out again
beforeRescaling(prob, format) ==
    (prob * ONE) \div (ONE - (IF format = "test" THEN DRAW_TEST ELSE 0))

\* C21: with team1 rated 1600 and team2 rated 1400, a fast-mode prediction
\* that misses the cache returns a team1WinProb that, before the draw mass
\* is rescaled in, is 1/(1+10^(-200/400)) = 0.7597 to within 0.01.
C21_FastWinProbFromRatings ==
    ( /\ fastComputed(returned)
      /\ ratings[returned.input.team1Id] = 1600
      /\ ratings[returned.input.team2Id] = 1400 )
    => beforeRescaling(returned.result.team1WinProb, returned.input.format)
           \in (7597 - 100)..(7597 + 100)

\* a fast prediction for India (1600) against Australia (1400) was computed
\* on a cache miss and returned 0.7597
C21_Witness ==
    /\ fastComputed(returned)
    /\ returned.input = InIndAusFinal
    /\ ratings["cricket_india"] = 1600
    /\ ratings["cricket_australia"] = 1400
    /\ returned.result.team1WinProb = 7597

(* ------------------------------- C22 ----------------------------------- *)

\* entry i of the cache is evicted by the step: its key is gone while other
\* entries stay
evicted(i) == predictionCache' # <<>> /\ ~cacheHas(predictionCache', predictionCache[i].key)

\* C22: the entry the clean-up evicts is the oldest by timestamp: no entry
\* that survives has a timestamp earlier than the evicted entry's, also when
\* the evicted key had been overwritten with a fresh result after expiry.
C22_EvictsOldestTimestamp ==
    [][ \A i \in 1..Len(predictionCache) :
            evicted(i) =>
                \A j \in 1..Len(predictionCache') :
                    predictionCache'[j].timestamp >= predictionCache[i].timestamp ]_vars

(* ------------------------------- C23 ----------------------------------- *)

\* the key is the tier's prefix followed by the identifying fields of a match
underPrefix(key, prefix) ==
    \E a \in Inputs :
        \/ key = prefix \o a.team1Id \o "_" \o a.team2Id \o "_" \o a.format
        \/ key = prefix \o a.team1Id \o "_" \o a.team2Id \o "_" \o a.format \o "_" \o a.venue

\* C23: every cached entry matches the tier of its key: an entry under a
\* 'fast_' key was produced by the Elo Rating System, an entry under a
\* 'balanced_' key by the Elo + ML Ensemble; no entry stores a Basic Fallback
\* result and no stored result has fromCache set.
C23_EntriesMatchTier ==
    \A i \in 1..Len(predictionCache) :
        LET e == predictionCache[i]
        IN  /\ underPrefix(e.key, "fast_") \/ underPrefix(e.key, "balanced_")
            /\ underPrefix(e.key, "fast_") => e.result.engineUsed = "Elo Rating System"
            /\ underPrefix(e.key, "balanced_") => e.result.engineUsed = "Elo + ML Ensemble"
            /\ e.result.engineUsed # "Basic Fallback"
            /\ e.result.fromCache = "absent"

\* C23 witness: a balanced request degraded and its fast-tier result was
\* computed and cached, while the cache holds the balanced entry of the same
\* match: the cache has an entry of each tier and nothing else.
C23_Witness ==
    /\ returned.pc = "done"
    /\ returned.path = <<"balanced", "fast">>
    /\ returned.result.engineUsed = "Elo Rating System"
    /\ returned.result.fromCache = "absent"
    /\ Len(predictionCache) = 2
    /\ cacheHas(predictionCache, fastKey(returned.input))
    /\ cacheHas(predictionCache, balancedKey(returned.input))
    /\ underPrefix(fastKey(returned.input), "fast_")
    /\ underPrefix(balancedKey(returned.input), "balanced_")

(* ------------------------------- C24 ----------------------------------- *)

\* the two inputs agree on the fields that identify a match for the tier
sameMatch(tier, a, b) ==
    /\ a.team1Id = b.team1Id
    /\ a.team2Id = b.team2Id
    /\ a.format = b.format
    /\ tier = "balanced" => a.venue = b.venue

\* the step is a call answered from the entry that the request returned
\* before it computed and cached
servedFromEntryOf(q) ==
    /\ newCall
    /\ reqs' = reqs
    /\ returned'.result.fromCache = "true"
    /\ q.pc = "done"
    /\ q.result.fromCache = "absent"
    /\ q.result.engineUsed # "Basic Fallback"
    /\ firstKey(returned') = lastKey(q)
    /\ cacheHas(predictionCache, lastKey(q))
    /\ cacheGet(predictionCache, lastKey(q)) =
           [key |-> lastKey(q), result |-> q.result, timestamp |-> q.doneAt]

\* C24: the cache key is injective in its identifying fields, ids containing
\* the separator '_' included, so a request is never served a result that
\* was cached for a different match: a call answered from the entry another
\* request cached agrees with that request on (team1Id, team2Id, format),
\* and on the venue for the balanced tier.
C24_KeyInjective ==
    [][ servedFromEntryOf(returned) =>
            /\ sameMatch(returned'.path[1], returned'.input, returned.input)
            /\ \A a, b \in {returned.input, returned'.input} :
                   /\ fastKey(a) = fastKey(b) => sameMatch("fast", a, b)
                   /\ balancedKey(a) = balancedKey(b) => sameMatch("balanced", a, b) ]_vars

(* ------------------------------- C25 ----------------------------------- *)

\* the step is a cache lookup and nothing else: a call running up to its
\* hit or to its first await, or a balanced request degrading into the fast
\* tier's lookup
lookupStep == newCall \/ \E r \in Reqs : fallbackLookup(r)

\* the entries of the cache that are expired at time t
expiredEntries(cache, t) == {i \in 1..Len(cache) : ~(t - cache[i].timestamp < CACHE_TTL)}

\* C25: a cache lookup never modifies the cache: whether it hits, misses or
\* finds an expired entry, the entries, their order and their timestamps are
\* as before; expired entries are not purged on read and still count toward
\* the reported size.
C25_LookupLeavesCache ==
    [][ lookupStep =>
            /\ predictionCache' = predictionCache
            /\ expiredEntries(predictionCache', now) = expiredEntries(predictionCache, now)
            /\ getCacheStats(predictionCache').size = Len(predictionCache) ]_vars

\* C25 witness: a call looked up an entry that had expired, missed and waits
\* for the Rating Model, and the expired entry is still in the cache and
\* counted.
C25_Witness ==
    \E r \in Reqs :
        /\ reqs[r].pc = "fastElo"
        /\ reqs[r].calls = <<>>
        /\ cacheHas(predictionCache, fastKey(reqs[r].input))
        /\ reqs[r].callAt - cacheGet(predictionCache, fastKey(reqs[r].input)).timestamp
               >= CACHE_TTL
        /\ expiredEntries(predictionCache, now) # {}
        /\ getCacheStats(predictionCache).size = Len(predictionCache)

(* ------------------------------- C26 ----------------------------------- *)

\* the calls request q has made to a collaborator, the pending one included
callsMade(q, who) ==
    Cardinality({i \in 1..Len(q.calls) : q.calls[i][1] = who})
        + (IF who = "elo" /\ q.pc \in {"fastElo", "balElo"} THEN 1 ELSE 0)
        + (IF who = "ml" /\ q.pc = "balMl" THEN 1 ELSE 0)

\* the fallback chain of request q is within its bounds
boundedChain(q) ==
    /\ q.path \in {<<"fast">>, <<"balanced">>, <<"balanced", "fast">>}
    /\ callsMade(q, "elo") <= 2
    /\ callsMade(q, "ml") <= 1
    /\ q.op \in FastOps => /\ q.path = <<"fast">>
                           /\ callsMade(q, "elo") <= 1
                           /\ callsMade(q, "ml") = 0
    /\ q.path = <<"fast">> => callsMade(q, "elo") <= 1 /\ callsMade(q, "ml") = 0

\* C26: provided each collaborator call returns or throws, every prediction
\* request terminates after a bounded fallback chain: a fast request makes at
\* most 1 Rating Model call and no Feature Ensemble call, a balanced or smart
\* request at most 2 Rating Model calls and 1 Feature Ensemble call, and the
\* chain balanced -> fast -> static fallback is never re-entered.
C26_BoundedFallbackChain ==
    /\ [](\A q \in activeRequests : boundedChain(q))
    /\ \A r \in Reqs : (reqs[r].pc # "idle") ~> (reqs[r].pc = "idle")

\* C26 witness: a smart request went through the whole chain: the Rating
\* Model answered, the Feature Ensemble failed, the fast tier's Rating Model
\* call failed, and the static fallback was returned.
C26_Witness ==
    /\ returned.pc = "done"
    /\ returned.op.fn = "generateSmartPrediction"
    /\ returned.path = <<"balanced", "fast">>
    /\ returned.calls = << <<"elo", "ok">>, <<"ml", "fail">>, <<"elo", "fail">> >>
    /\ returned.result.engineUsed = "Basic Fallback"

(* ------------------------------- C27 ----------------------------------- *)

\* request r as the step leaves it: suspended again, or returned
after(r) == IF reqs'[r].pc = "idle" THEN returned' ELSE reqs'[r]

\* the call request r was waiting for fails in this step
failStep(r) ==
    /\ reqs[r].pc # "idle"
    /\ Len(after(r).calls) = Len(reqs[r].calls) + 1
    /\ after(r).calls[Len(after(r).calls)][2] = "fail"

\* request r, which has degraded from the balanced to the fast tier, takes a step
degradedStep(r) ==
    /\ reqs[r].pc # "idle"
    /\ reqs'[r].pc # reqs[r].pc
    /\ after(r).path = <<"balanced", "fast">>

\* what the cache holds under the key, if anything
entryAt(cache, key) == {cache[i] : i \in {j \in 1..Len(cache) : cache[j].key = key}}

\* the key holds an entry that a lookup at time t serves
live(cache, key, t) == \E e \in entryAt(cache, key) : t - e.timestamp < CACHE_TTL

\* every collaborator call the request made succeeded, and it made one
allCallsSucceeded(q) == q.calls # <<>> /\ \A i \in 1..Len(q.calls) : q.calls[i][2] = "ok"

\* C27: failures are never memoized: the step in which a collaborator call
\* fails writes nothing, a degraded balanced request never writes under the
\* balanced key, and a failed fast computation writes nothing under the fast
\* key; so a later request whose key is not cached calls the Rating Model
\* again and, its collaborators succeeding, returns the result of its own
\* tier.
C27_FailuresNotMemoized ==
    [][ /\ \A r \in Reqs :
               /\ failStep(r) => predictionCache' = predictionCache
               /\ degradedStep(r) =>
                      entryAt(predictionCache', balancedKey(reqs[r].input))
                          = entryAt(predictionCache, balancedKey(reqs[r].input))
               /\ (failStep(r) /\ reqs[r].pc = "fastElo") =>
                      entryAt(predictionCache', fastKey(reqs[r].input))
                          = entryAt(predictionCache, fastKey(reqs[r].input))
               /\ (resumedSettles(r) /\ allCallsSucceeded(returned')) =>
                      /\ Len(returned'.path) = 1
                      /\ returned'.result.engineUsed =
                             (IF returned'.path[1] = "fast"
                              THEN "Elo Rating System" ELSE "Elo + ML Ensemble")
        /\ (newCall /\ ~live(predictionCache, firstKey(calledReq), now)) =>
               /\ calledReq.pc \in {"fastElo", "balElo"}
               /\ calledReq.calls = <<>> ]_vars

\* C27 witness: a balanced request went down the whole chain and returned the
\* static fallback; nothing was cached, and a later balanced request for the
\* same match within the TTL is calling the Rating Model again.
C27_Witness ==
    \E r \in Reqs :
        /\ reqs[r].pc = "balElo"
        /\ reqs[r].calls = <<>>
        /\ returned.pc = "done"
        /\ returned.input = reqs[r].input
        /\ returned.path = <<"balanced", "fast">>
        /\ returned.result.engineUsed = "Basic Fallback"
        /\ returned.doneAt < reqs[r].callAt
        /\ reqs[r].callAt - returned.doneAt < CACHE_TTL
        /\ predictionCache = <<>>

(* ------------------------------- C28 ----------------------------------- *)

\* C28: clearCache is not undone by requests that were in flight: a request
\* that was suspended on a collaborator when clearCache ran does not insert
\* its result afterwards (every entry the cache holds after a step of such a
\* request was there before the step), so when the requests started before
\* the clearCache have completed and none has started since, the cache is
\* empty.
C28_ClearNotUndone ==
    [][ \A r \in Reqs :
            (reqs[r].clearedSince /\ reqs'[r].pc # reqs[r].pc) =>
                \A i \in 1..Len(predictionCache') :
                    \E j \in 1..Len(predictionCache) :
                        predictionCache'[i] = predictionCache[j] ]_vars

(* ------------------------------- C29 ----------------------------------- *)

\* C29: getCacheStats is read-only and reports as size the current number of
\* entries, expired entries included, and as hitRate the constant 0.85, in
\* every state: on an empty cache, on a cache never used, after any hits or
\* misses.
C29_StatsReadOnly ==
    /\ [](getCacheStats(predictionCache) = [size |-> Len(predictionCache), hitRate |-> 8500])
    /\ [][ statsStep =>
               /\ cacheResponse'.status = 200
               /\ cacheResponse'.stats = [size |-> Len(predictionCache), hitRate |-> 8500]
               /\ UNCHANGED <<predictionCache, reqs, returned, now, ncalls>> ]_vars

\* C29 witness: the statistics were asked for after a hit and after the only
\* entry had expired: they report size 1 and hit rate 0.85.
C29_Witness ==
    /\ cacheResponse.route = "stats"
    /\ cacheResponse.stats = [size |-> 1, hitRate |-> 8500]
    /\ Len(predictionCache) = 1
    /\ expiredEntries(predictionCache, now) = {1}
    /\ returned.pc = "done"
    /\ returned.result.fromCache = "true"

(* ------------------------------- C30 ----------------------------------- *)

\* C30: a freshly computed fast-tier result carries the Rating Model's
\* output unchanged: its team1WinProb, team2WinProb and drawProb are exactly
\* the three values the Rating Model resolved to, whatever they are, a
\* drawProb of 0 (formats other than test) included.
C30_FastCarriesRatingOutput ==
    [][ \A r \in Reqs, eloResult \in EloOutputs :
            (reqs[r].pc = "fastElo" /\ EloResolves(r, eloResult)) =>
                /\ returned'.result.team1WinProb = eloResult.team1WinProb
                /\ returned'.result.team2WinProb = eloResult.team2WinProb
                /\ returned'.result.drawProb = eloResult.drawProb ]_vars

====
